---- MODULE Spec2Model ----
(***************************************************************************)
(* Model of portfolio-infra/lambda/index.py: the contact-form handler      *)
(* lambda_handler and its helper get_source_ip.                            *)
(*                                                                         *)
(* Strings that the code transforms (strip, lower, split, concatenation)   *)
(* are sequences of one-character strings, so the transformations are      *)
(* computed rather than assumed.  Time is counted in minutes; a timestamp  *)
(* is the pair <<hour, minute>> that isoformat() writes most significant   *)
(* field first, and the store compares timestamps field by field, the way  *)
(* a string comparison of two isoformat() texts does.                      *)
(***************************************************************************)
EXTENDS Integers, Sequences, FiniteSets, TLC

VARIABLES
    store,      \* table PortfolioMessages: the records, in the order written
    now,        \* the wall clock, datetime.utcnow(), in minutes
    uuids,      \* how many identifiers uuid.uuid4() has handed out
    outbox,     \* the notifications ses.send_email has accepted
    pc,         \* pc[i]: where invocation i of lambda_handler stands
    req,        \* req[i]: the event invocation i was called with
    loc,        \* loc[i]: the local variables of invocation i
    resp,       \* resp[i]: the response invocation i returned
    obs         \* obs[i]: what invocation i has done so far (history)

vars == <<store, now, uuids, outbox, pc, req, loc, resp, obs>>

----------------------------------------------------------------------------
(* Bounds of the model *)

NInv == 2          \* invocations that may overlap
MaxTicks == 1      \* minutes the clock advances in one behaviour
MaxOld == 1        \* stored records written exactly one hour before the start
MaxRecent == 1     \* stored records written just inside the five-minute window

(* Program constants *)

MAX_SUBMISSIONS_PER_IP == 10
MAX_SUBMISSIONS_PER_EMAIL == 5
OneHour == 60      \* timedelta(hours=1), in minutes
FiveMinutes == 5   \* timedelta(minutes=5), in minutes

Inv == 1..NInv
T0 == 2 * OneHour  \* the clock when the behaviour starts

----------------------------------------------------------------------------
(* Strings *)

UNKNOWN == <<"u", "n", "k", "n", "o", "w", "n">>

IsSpace(c) == c = " "

LowerChar(c) ==
    CASE c = "A" -> "a"
      [] c = "B" -> "b"
      [] c = "M" -> "m"
      [] c = "N" -> "n"
      [] c = "X" -> "x"
      [] OTHER -> c

\* str.lower()
Lower(s) == [k \in 1..Len(s) |-> LowerChar(s[k])]

RECURSIVE LStrip(_)
LStrip(s) == IF s # <<>> /\ IsSpace(Head(s)) THEN LStrip(Tail(s)) ELSE s

RECURSIVE RStrip(_)
RStrip(s) ==
    IF s # <<>> /\ IsSpace(s[Len(s)]) THEN RStrip(SubSeq(s, 1, Len(s) - 1)) ELSE s

\* str.strip()
Strip(s) == RStrip(LStrip(s))

\* str.split(',')[0]
RECURSIVE FirstToken(_)
FirstToken(s) ==
    IF s = <<>> \/ Head(s) = "," THEN <<>> ELSE <<Head(s)>> \o FirstToken(Tail(s))

\* datetime.isoformat(): most significant field first, so the text order of two
\* renderings is the order of the instants (the clock here counts minutes)
IsoFormat(t) == <<t \div OneHour, t % OneHour>>

\* the filter as '#ts >= :time'
TsAfter_OrEqual(a, b) == a[1] > b[1] \/ (a[1] = b[1] /\ a[2] >= b[2])

\* the store's '#ts > :time' on two isoformat() texts
TsAfter(a, b) == a[1] > b[1] \/ (a[1] = b[1] /\ a[2] > b[2])

----------------------------------------------------------------------------
(* Values a mapping lookup can give *)

None == [k |-> "none", s |-> <<>>]          \* key absent: dict.get gives None
NonStr == [k |-> "nonstr", s |-> <<>>]      \* a number, null, list: no .strip()
Str(s) == [k |-> "str", s |-> s]

\* Python truthiness of an optional string
Truthy(v) == v.k = "str" /\ v.s # <<>>

\* a or b
Or(a, b) == IF Truthy(a) THEN a ELSE b

----------------------------------------------------------------------------
(* get_source_ip *)

\* event.get('requestContext', {}).get('http', {}).get('sourceIp')
HttpSourceIp(event) ==
    IF event.requestContext /\ event.http THEN event.httpIp ELSE None

\* request_context.get('identity', {}).get('sourceIp')
IdentitySourceIp(event) ==
    IF event.requestContext /\ event.identity THEN event.identityIp ELSE None

\* headers.get('x-forwarded-for') or headers.get('X-Forwarded-For')
Forwarded(event) ==
    IF event.headers THEN Or(event.xff, event.XFF) ELSE None

\* get_source_ip with line 33 lacking .strip()
get_source_ip_NoStrip(event) ==
    LET ip1 == HttpSourceIp(event)
        ip2 == IF ~Truthy(ip1) THEN IdentitySourceIp(event) ELSE ip1
        fwd == Forwarded(event)
        ip3 == IF ~Truthy(ip2)
               THEN (IF Truthy(fwd) THEN Str(FirstToken(fwd.s)) ELSE ip2)
               ELSE ip2
    IN  IF Truthy(ip3) THEN ip3.s ELSE UNKNOWN

get_source_ip(event) ==
    LET ip1 == HttpSourceIp(event)
        ip2 == IF ~Truthy(ip1) THEN IdentitySourceIp(event) ELSE ip1
        fwd == Forwarded(event)
        ip3 == IF ~Truthy(ip2)
               THEN (IF Truthy(fwd) THEN Str(Strip(FirstToken(fwd.s))) ELSE ip2)
               ELSE ip2
    IN  IF Truthy(ip3) THEN ip3.s ELSE UNKNOWN

----------------------------------------------------------------------------
(* Responses *)

BaseHeaders ==
    {<<"Content-Type", "application/json">>, <<"Access-Control-Allow-Origin", "*">>}

SuccessHeaders ==
    BaseHeaders \cup {<<"Access-Control-Allow-Methods", "POST, OPTIONS">>,
                      <<"Access-Control-Allow-Headers", "Content-Type">>}

\* json.dumps({'status': ..., 'message': ...}), kept as the mapping it encodes
Response(code, headers, status, message) ==
    [statusCode |-> code, headers |-> headers,
     body |-> [status |-> status, message |-> message]]

NoResponse == Response(0, {}, "", "")

\* lines 52-56 with the headers of the 200 response
MissingFields_Preflight ==
    Response(400, SuccessHeaders, "error", "Missing required fields")

MissingFields == Response(400, BaseHeaders, "error", "Missing required fields")

TooManyIp ==
    Response(429, BaseHeaders, "error", "Too many submissions. Please try again later.")

TooManyEmail ==
    Response(429, BaseHeaders, "error",
             "Too many submissions from this email. Please try again later.")

Duplicate ==
    Response(429, BaseHeaders, "error",
             "Duplicate submission detected. Please wait a few minutes.")

\* lines 156-165 returning str(e) to the caller
InternalError_ShowsFault(e) == Response(500, BaseHeaders, "error", e)

\* the handler of 'except Exception as e': the text of e is printed, not returned
InternalError(e) == Response(500, BaseHeaders, "error", "Internal server error")

Success(email_sent) ==
    Response(200, SuccessHeaders, "success",
             IF ~email_sent THEN "Message received!" ELSE "Message sent!")

----------------------------------------------------------------------------
(* lambda_handler, lines 40-48: parsing *)

\* json.loads(event['body']) when the body is text, event.get('body', {}) otherwise
ParseBody(event) ==
    LET b == event.body
    IN  IF b.text /\ b.kind = "malformed" THEN [fault |-> "JSONDecodeError", kind |-> ""]
        ELSE [fault |-> "", kind |-> IF b.kind = "absent" THEN "map" ELSE b.kind]

\* body.get(key, '') followed by .strip(): the default for an absent key is ''
Field(v) == IF v.k = "none" THEN Str(<<>>) ELSE v

\* line 46 without .lower()
NormalizeEmail_NoLower(s) == Strip(s)

\* line 46: .strip().lower()
NormalizeEmail(s) == Lower(Strip(s))

\* lines 40-48 as one computation; fault is the text of the exception raised, if any
ParseEvent(event) ==
    LET b == event.body
        p == ParseBody(event)
        blank == [fault |-> "", name |-> <<>>, email |-> <<>>, message |-> <<>>,
                  source_ip |-> <<>>]
        n == Field(b.name)
        e == Field(b.email)
        m == Field(b.message)
    IN  IF p.fault # "" THEN [blank EXCEPT !.fault = p.fault]
        ELSE IF p.kind # "map" THEN [blank EXCEPT !.fault = "AttributeError: get"]
        ELSE IF n.k # "str" \/ e.k # "str" \/ m.k # "str"
             THEN [blank EXCEPT !.fault = "AttributeError: strip"]
        ELSE [fault |-> "",
              name |-> Strip(n.s),
              email |-> NormalizeEmail(e.s),
              message |-> Strip(m.s),
              source_ip |-> get_source_ip(event)]

\* hashlib.md5(...).hexdigest(): a digest stands for the text it was taken of
\* (no two texts of the model collide)
Md5Hex(text) == <<"md5">> \o text

\* line 89 without .lower()
ContentHash_CaseSensitive(email, message) == Md5Hex(email \o message)

\* line 89
ContentHash(email, message) == Md5Hex(email \o Lower(message))

\* line 51 without the test of message
MissingRequired_NoMessage(name, email, message) == name = <<>> \/ email = <<>>

\* line 51: not name or not email or not message
MissingRequired(name, email, message) ==
    name = <<>> \/ email = <<>> \/ message = <<>>

\* line 72 with > for >=
IpLimitReached_Gt(items) == Len(items) > MAX_SUBMISSIONS_PER_IP

\* line 72
IpLimitReached(items) == Len(items) >= MAX_SUBMISSIONS_PER_IP

\* line 80
EmailCount(items, email) ==
    Cardinality({k \in 1..Len(items) : Lower(items[k].Email) = email})

\* line 81 with > for >=
EmailLimitReached_Gt(items, email) ==
    EmailCount(items, email) > MAX_SUBMISSIONS_PER_EMAIL

\* line 81
EmailLimitReached(items, email) ==
    EmailCount(items, email) >= MAX_SUBMISSIONS_PER_EMAIL

----------------------------------------------------------------------------
(* State of one invocation *)

BlankLoc ==
    [name |-> <<>>, email |-> <<>>, message |-> <<>>, source_ip |-> <<>>,
     one_hour_ago |-> <<0, 0>>, ip_items |-> <<>>, content_hash |-> <<>>,
     five_mins_ago |-> <<0, 0>>, email_sent |-> TRUE]

\* log: the steps completed, in order (a step that raised is logged as its
\* fault); fault: the text of the exception caught, "" if none;
\* t58, t90: the clock read at lines 58 and 90; ipLen, dupLen: how many records
\* the store held when each query was made; put: where the record written sits
BlankObs ==
    [log |-> <<>>, fault |-> "", t58 |-> 0, t90 |-> 0, ipLen |-> 0, dupLen |-> 0,
     put |-> 0]

Finish(i, r, steps, fault) ==
    /\ pc' = [pc EXCEPT ![i] = "done"]
    /\ resp' = [resp EXCEPT ![i] = r]
    /\ obs' = [obs EXCEPT ![i].log = @ \o steps, ![i].fault = fault]

----------------------------------------------------------------------------
(* The requests of the model *)

NoContext ==
    [requestContext |-> FALSE, http |-> FALSE, httpIp |-> None,
     identity |-> FALSE, identityIp |-> None,
     headers |-> FALSE, xff |-> None, XFF |-> None]

\* an HTTP API v2 event: requestContext.http.sourceIp is set
HttpContext(ip) ==
    [NoContext EXCEPT !.requestContext = TRUE, !.http = TRUE, !.httpIp = Str(ip)]

Ip1 == <<"1">>

Contexts == {HttpContext(Ip1), NoContext}

Body(text, kind, name, email, message) ==
    [text |-> text, kind |-> kind, name |-> name, email |-> email, message |-> message]

Form(name, email, message) == Body(TRUE, "map", Str(name), Str(email), Str(message))

\* forms that pass validation: the same email with two messages, and another
\* email written with a capital and padding
GoodBodies ==
    {Form(<<" ", "N">>, <<"a">>, <<"m">>),
     Form(<<"N">>, <<"a">>, <<"x">>),
     Form(<<"N">>, <<"B", " ">>, <<"m", " ">>)}

BadBodies ==
    {Body(FALSE, "absent", None, None, None),
     Body(TRUE, "malformed", None, None, None),
     Body(TRUE, "notmap", None, None, None),
     Body(FALSE, "notmap", None, None, None),
     Body(FALSE, "map", None, Str(<<"a">>), Str(<<"m">>)),
     Body(TRUE, "map", Str(<<"N">>), Str(<<" ">>), Str(<<"m">>)),
     Body(TRUE, "map", Str(<<"N">>), Str(<<"a">>), Str(<<>>)),
     Body(TRUE, "map", None, NonStr, Str(<<"m">>)),
     Body(TRUE, "map", Str(<<"N">>), Str(<<"a">>), NonStr)}

Event(context, body) ==
    [x \in DOMAIN context \cup {"body"} |-> IF x = "body" THEN body ELSE context[x]]

Events ==
    {Event(c, b) : c \in Contexts, b \in GoodBodies}
        \cup {Event(HttpContext(Ip1), b) : b \in BadBodies}

----------------------------------------------------------------------------
(* The records the store holds when the behaviour starts, all left behind  *)
(* by earlier invocations (overlapping ones included):                      *)
(*   nOld    from Ip1, written exactly one hour ago;                         *)
(*   nA, nB  from Ip1 with email "a" and "b", one minute inside the hour;    *)
(*   nRecent from no known origin, one minute inside the five minutes,      *)
(*           with the email "a" and the message "M".                        *)

Item(id, t, name, email, message, ip) ==
    [MessageId |-> id, Timestamp |-> IsoFormat(t), Name |-> name, Email |-> email,
     Message |-> message, ContentHash |-> ContentHash(email, message),
     SourceIP |-> ip]

Prefill(nA, nB, nOld, nRecent) ==
    [k \in 1..(nOld + nA + nB + nRecent) |->
        IF k <= nOld THEN Item(k, T0 - OneHour, <<"N">>, <<"a">>, <<"o">>, Ip1)
        ELSE IF k <= nOld + nA
             THEN Item(k, T0 - OneHour + 1, <<"N">>, <<"a">>, <<"o">>, Ip1)
        ELSE IF k <= nOld + nA + nB
             THEN Item(k, T0 - OneHour + 1, <<"N">>, <<"b">>, <<"o">>, Ip1)
        ELSE Item(k, T0 - FiveMinutes + 1, <<"N">>, <<"a">>, <<"M">>, UNKNOWN)]

PrefillChoices ==
    {<<nA, nB, nOld, nRecent>> :
        nA \in {MAX_SUBMISSIONS_PER_EMAIL - 1, MAX_SUBMISSIONS_PER_EMAIL},
        nB \in {MAX_SUBMISSIONS_PER_EMAIL, MAX_SUBMISSIONS_PER_EMAIL + 1},
        nOld \in 0..MaxOld,
        nRecent \in 0..MaxRecent}

Init ==
    /\ \E c \in PrefillChoices :
          /\ store = Prefill(c[1], c[2], c[3], c[4])
          /\ uuids = c[1] + c[2] + c[3] + c[4]
    /\ now = T0
    /\ outbox = <<>>
    /\ pc = [i \in Inv |-> "idle"]
    /\ req = [i \in Inv |-> None]
    /\ loc = [i \in Inv |-> BlankLoc]
    /\ resp = [i \in Inv |-> NoResponse]
    /\ obs = [i \in Inv |-> BlankObs]

----------------------------------------------------------------------------
(* lambda_handler *)

\* lines 38-58: parse, derive the origin, validate, read the clock
Start(i, event) ==
    /\ pc[i] = "idle"
    /\ \A j \in Inv : j < i => pc[j] # "idle"   \* invocations are numbered as they arrive
    /\ req' = [req EXCEPT ![i] = event]
    /\ LET p == ParseEvent(event)
       IN  IF p.fault # ""
           THEN /\ Finish(i, InternalError(p.fault), <<"parse_fault">>, p.fault)
                /\ loc' = loc
           ELSE IF MissingRequired(p.name, p.email, p.message)
           THEN /\ Finish(i, MissingFields, <<"invalid">>, "")
                /\ loc' = [loc EXCEPT ![i].name = p.name, ![i].email = p.email,
                                      ![i].message = p.message,
                                      ![i].source_ip = p.source_ip]
           ELSE /\ pc' = [pc EXCEPT ![i] = "query_ip"]
                /\ loc' = [loc EXCEPT ![i].name = p.name, ![i].email = p.email,
                                      ![i].message = p.message,
                                      ![i].source_ip = p.source_ip,
                                      ![i].one_hour_ago = IsoFormat(now - OneHour)]
                /\ obs' = [obs EXCEPT ![i].log = @ \o <<"valid">>, ![i].t58 = now]
                /\ resp' = resp
    /\ UNCHANGED <<store, now, uuids, outbox>>

\* lines 61-70 with the key condition 'SourceIP = :ip' left out: the query gives
\* the records of every origin within the hour
QueryIp_AnyOrigin(i, ok) ==
    /\ pc[i] = "query_ip"
    /\ IF ~ok
       THEN /\ pc' = [pc EXCEPT ![i] = "done"]
            /\ resp' = [resp EXCEPT ![i] = InternalError("ClientError: query")]
            /\ obs' = [obs EXCEPT ![i].log = @ \o <<"query_ip_fault">>,
                                  ![i].fault = "ClientError: query",
                                  ![i].ipLen = Len(store)]
            /\ loc' = loc
       ELSE /\ pc' = [pc EXCEPT ![i] = "limits"]
            /\ loc' = [loc EXCEPT ![i].ip_items =
                          SelectSeq(store,
                              LAMBDA r : TsAfter(r.Timestamp, loc[i].one_hour_ago))]
            /\ obs' = [obs EXCEPT ![i].log = @ \o <<"query_ip">>, ![i].ipLen = Len(store)]
            /\ resp' = resp
    /\ UNCHANGED <<store, now, uuids, outbox, req>>

\* lines 61-70: table.query on SourceIPIndex; the store may fault instead.
\* The code reads one result page and the answer is taken to hold every match.
QueryIp(i, ok) ==
    /\ pc[i] = "query_ip"
    /\ IF ~ok
       THEN /\ pc' = [pc EXCEPT ![i] = "done"]
            /\ resp' = [resp EXCEPT ![i] = InternalError("ClientError: query")]
            /\ obs' = [obs EXCEPT ![i].log = @ \o <<"query_ip_fault">>,
                                  ![i].fault = "ClientError: query",
                                  ![i].ipLen = Len(store)]
            /\ loc' = loc
       ELSE /\ pc' = [pc EXCEPT ![i] = "limits"]
            /\ loc' = [loc EXCEPT ![i].ip_items =
                          SelectSeq(store,
                              LAMBDA r : /\ r.SourceIP = loc[i].source_ip
                                         /\ TsAfter(r.Timestamp, loc[i].one_hour_ago))]
            /\ obs' = [obs EXCEPT ![i].log = @ \o <<"query_ip">>, ![i].ipLen = Len(store)]
            /\ resp' = resp
    /\ UNCHANGED <<store, now, uuids, outbox, req>>

\* lines 72-90 with the email gate (lines 80-86) ahead of the origin gate
CheckLimits_EmailFirst(i) ==
    /\ pc[i] = "limits"
    /\ IF EmailLimitReached(loc[i].ip_items, loc[i].email)
       THEN /\ Finish(i, TooManyEmail, <<"ip_ok", "email_limit">>, "")
            /\ loc' = loc
       ELSE IF IpLimitReached(loc[i].ip_items)
       THEN /\ Finish(i, TooManyIp, <<"ip_limit">>, "")
            /\ loc' = loc
       ELSE /\ pc' = [pc EXCEPT ![i] = "query_dup"]
            /\ loc' = [loc EXCEPT
                          ![i].content_hash = ContentHash(loc[i].email, loc[i].message),
                          ![i].five_mins_ago = IsoFormat(now - FiveMinutes)]
            /\ obs' = [obs EXCEPT ![i].log = @ \o <<"ip_ok", "email_ok">>, ![i].t90 = now]
            /\ resp' = resp
    /\ UNCHANGED <<store, now, uuids, outbox, req>>

\* lines 72-90 without the email gate of lines 80-86
CheckLimits_NoEmailGate(i) ==
    /\ pc[i] = "limits"
    /\ IF IpLimitReached(loc[i].ip_items)
       THEN /\ Finish(i, TooManyIp, <<"ip_limit">>, "")
            /\ loc' = loc
       ELSE /\ pc' = [pc EXCEPT ![i] = "query_dup"]
            /\ loc' = [loc EXCEPT
                          ![i].content_hash = ContentHash(loc[i].email, loc[i].message),
                          ![i].five_mins_ago = IsoFormat(now - FiveMinutes)]
            /\ obs' = [obs EXCEPT ![i].log = @ \o <<"ip_ok", "email_ok">>, ![i].t90 = now]
            /\ resp' = resp
    /\ UNCHANGED <<store, now, uuids, outbox, req>>

\* lines 72-90: the two limits, then the fingerprint and the second clock reading
CheckLimits(i) ==
    /\ pc[i] = "limits"
    /\ IF IpLimitReached(loc[i].ip_items)
       THEN /\ Finish(i, TooManyIp, <<"ip_limit">>, "")
            /\ loc' = loc
       ELSE IF EmailLimitReached(loc[i].ip_items, loc[i].email)
       THEN /\ Finish(i, TooManyEmail, <<"ip_ok", "email_limit">>, "")
            /\ loc' = loc
       ELSE /\ pc' = [pc EXCEPT ![i] = "query_dup"]
            /\ loc' = [loc EXCEPT
                          ![i].content_hash = ContentHash(loc[i].email, loc[i].message),
                          ![i].five_mins_ago = IsoFormat(now - FiveMinutes)]
            /\ obs' = [obs EXCEPT ![i].log = @ \o <<"ip_ok", "email_ok">>, ![i].t90 = now]
            /\ resp' = resp
    /\ UNCHANGED <<store, now, uuids, outbox, req>>

\* lines 92-108 with the return of line 104 missing: the response is built and
\* the handler goes on to line 111
QueryDup_NoReturn(i, ok) ==
    /\ pc[i] = "query_dup"
    /\ LET items == SelectSeq(store,
                       LAMBDA r : /\ r.ContentHash = loc[i].content_hash
                                  /\ TsAfter(r.Timestamp, loc[i].five_mins_ago))
       IN  IF ~ok
           THEN /\ pc' = [pc EXCEPT ![i] = "done"]
                /\ resp' = [resp EXCEPT ![i] = InternalError("ClientError: query")]
                /\ obs' = [obs EXCEPT ![i].log = @ \o <<"query_dup_fault">>,
                                      ![i].fault = "ClientError: query",
                                      ![i].dupLen = Len(store)]
           ELSE /\ pc' = [pc EXCEPT ![i] = "put"]
                /\ obs' = [obs EXCEPT ![i].log = @ \o (IF items # <<>>
                                                        THEN <<"query_dup", "duplicate">>
                                                        ELSE <<"query_dup", "dup_ok">>),
                                      ![i].dupLen = Len(store)]
                /\ resp' = [resp EXCEPT ![i] = IF items # <<>> THEN Duplicate ELSE @]
    /\ UNCHANGED <<store, now, uuids, outbox, req, loc>>

\* lines 92-108 with the query narrowed to the records of the same origin
QueryDup_PerOrigin(i, ok) ==
    /\ pc[i] = "query_dup"
    /\ LET items == SelectSeq(store,
                       LAMBDA r : /\ r.ContentHash = loc[i].content_hash
                                  /\ r.SourceIP = loc[i].source_ip
                                  /\ TsAfter(r.Timestamp, loc[i].five_mins_ago))
       IN  IF ~ok
           THEN /\ pc' = [pc EXCEPT ![i] = "done"]
                /\ resp' = [resp EXCEPT ![i] = InternalError("ClientError: query")]
                /\ obs' = [obs EXCEPT ![i].log = @ \o <<"query_dup_fault">>,
                                      ![i].fault = "ClientError: query",
                                      ![i].dupLen = Len(store)]
           ELSE IF items # <<>>
           THEN /\ pc' = [pc EXCEPT ![i] = "done"]
                /\ resp' = [resp EXCEPT ![i] = Duplicate]
                /\ obs' = [obs EXCEPT ![i].log = @ \o <<"query_dup", "duplicate">>,
                                      ![i].dupLen = Len(store)]
           ELSE /\ pc' = [pc EXCEPT ![i] = "put"]
                /\ obs' = [obs EXCEPT ![i].log = @ \o <<"query_dup", "dup_ok">>,
                                      ![i].dupLen = Len(store)]
                /\ resp' = resp
    /\ UNCHANGED <<store, now, uuids, outbox, req, loc>>

\* lines 92-108: table.query on ContentHashIndex, and the duplicate gate
QueryDup(i, ok) ==
    /\ pc[i] = "query_dup"
    /\ LET items == SelectSeq(store,
                       LAMBDA r : /\ r.ContentHash = loc[i].content_hash
                                  /\ TsAfter(r.Timestamp, loc[i].five_mins_ago))
       IN  IF ~ok
           THEN /\ pc' = [pc EXCEPT ![i] = "done"]
                /\ resp' = [resp EXCEPT ![i] = InternalError("ClientError: query")]
                /\ obs' = [obs EXCEPT ![i].log = @ \o <<"query_dup_fault">>,
                                      ![i].fault = "ClientError: query",
                                      ![i].dupLen = Len(store)]
           ELSE IF items # <<>>
           THEN /\ pc' = [pc EXCEPT ![i] = "done"]
                /\ resp' = [resp EXCEPT ![i] = Duplicate]
                /\ obs' = [obs EXCEPT ![i].log = @ \o <<"query_dup", "duplicate">>,
                                      ![i].dupLen = Len(store)]
           ELSE /\ pc' = [pc EXCEPT ![i] = "put"]
                /\ obs' = [obs EXCEPT ![i].log = @ \o <<"query_dup", "dup_ok">>,
                                      ![i].dupLen = Len(store)]
                /\ resp' = resp
    /\ UNCHANGED <<store, now, uuids, outbox, req, loc>>

\* str(uuid.uuid4()): an identifier no earlier call has returned
Uuid4 == uuids + 1

\* the record of lines 111-119
NewItem(i) ==
    [MessageId |-> Uuid4,
     Timestamp |-> IsoFormat(now),
     Name |-> loc[i].name,
     Email |-> loc[i].email,
     Message |-> loc[i].message,
     ContentHash |-> loc[i].content_hash,
     SourceIP |-> loc[i].source_ip]

\* lines 111-119 as a conditional write: the store takes the record only while
\* it holds fewer than the limit of the origin within the hour
Put_Conditional(i, ok) ==
    /\ pc[i] = "put"
    /\ Len(SelectSeq(store, LAMBDA r : /\ r.SourceIP = loc[i].source_ip
                                       /\ TsAfter(r.Timestamp, loc[i].one_hour_ago)))
          < MAX_SUBMISSIONS_PER_IP
    /\ IF ~ok
       THEN /\ Finish(i, InternalError("ClientError: put_item"), <<"put_fault">>,
                      "ClientError: put_item")
            /\ UNCHANGED <<store, uuids>>
       ELSE /\ store' = Append(store, NewItem(i))
            /\ uuids' = uuids + 1
            /\ pc' = [pc EXCEPT ![i] = "send"]
            /\ obs' = [obs EXCEPT ![i].log = @ \o <<"put">>, ![i].put = Len(store) + 1]
            /\ resp' = resp
    /\ UNCHANGED <<now, outbox, req, loc>>

\* lines 111-119 with a key that is not fresh: put_item replaces the record
\* that holds the key, here the last one written
Put_Replace(i, ok) ==
    /\ pc[i] = "put"
    /\ IF ~ok
       THEN /\ Finish(i, InternalError("ClientError: put_item"), <<"put_fault">>,
                      "ClientError: put_item")
            /\ UNCHANGED <<store, uuids>>
       ELSE /\ store' = IF store = <<>> THEN <<NewItem(i)>>
                        ELSE [store EXCEPT ![Len(store)] = NewItem(i)]
            /\ uuids' = uuids + 1
            /\ pc' = [pc EXCEPT ![i] = "send"]
            /\ obs' = [obs EXCEPT ![i].log = @ \o <<"put">>, ![i].put = Len(store)]
            /\ resp' = resp
    /\ UNCHANGED <<now, outbox, req, loc>>

\* lines 111-119: table.put_item; the store may fault instead
Put(i, ok) ==
    /\ pc[i] = "put"
    /\ IF ~ok
       THEN /\ Finish(i, InternalError("ClientError: put_item"), <<"put_fault">>,
                      "ClientError: put_item")
            /\ UNCHANGED <<store, uuids>>
       ELSE /\ store' = Append(store, NewItem(i))
            /\ uuids' = uuids + 1
            /\ pc' = [pc EXCEPT ![i] = "send"]
            /\ obs' = [obs EXCEPT ![i].log = @ \o <<"put">>, ![i].put = Len(store) + 1]
            /\ resp' = resp
    /\ UNCHANGED <<now, outbox, req, loc>>

\* the notification of lines 124-138
Mail(i) ==
    [Source |-> "SENDER_EMAIL", ToAddresses |-> <<"SENDER_EMAIL">>,
     name |-> loc[i].name, email |-> loc[i].email, message |-> loc[i].message]

\* lines 122-152 without the inner try: a fault of ses.send_email reaches the
\* handler of line 156
Send_Propagates(i, ok) ==
    /\ pc[i] = "send"
    /\ outbox' = IF ok THEN Append(outbox, Mail(i)) ELSE outbox
    /\ loc' = [loc EXCEPT ![i].email_sent = ok]
    /\ pc' = [pc EXCEPT ![i] = "done"]
    /\ resp' = [resp EXCEPT ![i] = IF ok THEN Success(TRUE)
                                   ELSE InternalError("ClientError: send_email")]
    /\ obs' = [obs EXCEPT ![i].log = @ \o (IF ok THEN <<"send">> ELSE <<"send", "email_error">>),
                          ![i].fault = IF ok THEN @ ELSE "ClientError: send_email"]
    /\ UNCHANGED <<store, now, uuids, req>>

\* lines 122-152: ses.send_email inside its own try, then the 200 response
Send(i, ok) ==
    /\ pc[i] = "send"
    /\ outbox' = IF ok THEN Append(outbox, Mail(i)) ELSE outbox
    /\ loc' = [loc EXCEPT ![i].email_sent = ok]
    /\ pc' = [pc EXCEPT ![i] = "done"]
    /\ resp' = [resp EXCEPT ![i] = Success(ok)]
    /\ obs' = [obs EXCEPT ![i].log = @ \o (IF ok THEN <<"send">> ELSE <<"send", "email_error">>)]
    /\ UNCHANGED <<store, now, uuids, req>>

\* the wall clock moves on by a minute
Tick ==
    /\ now < T0 + MaxTicks
    /\ now' = now + 1
    /\ UNCHANGED <<store, uuids, outbox, pc, req, loc, resp, obs>>

Next ==
    \/ \E i \in Inv, event \in Events : Start(i, event)
    \/ \E i \in Inv, ok \in BOOLEAN : QueryIp(i, ok)
    \/ \E i \in Inv : CheckLimits(i)
    \/ \E i \in Inv, ok \in BOOLEAN : QueryDup(i, ok)
    \/ \E i \in Inv, ok \in BOOLEAN : Put(i, ok)
    \/ \E i \in Inv, ok \in BOOLEAN : Send(i, ok)
    \/ Tick

Spec == Init /\ [][Next]_vars

----------------------------------------------------------------------------------------------------------------------------------------
(* What the properties below speak of.  The store only grows, so the records *)
(* a query could see are the first ipLen (dupLen) records of the store.      *)

\* a stored timestamp read back as minutes
Minutes(ts) == ts[1] * OneHour + ts[2]

Returned(i) == pc[i] = "done"

Has(i, step) == \E k \in 1..Len(obs[i].log) : obs[i].log[k] = step

Times(i, step) == Cardinality({k \in 1..Len(obs[i].log) : obs[i].log[k] = step})

\* an exception reached the handler of 'except Exception' (lines 156-165)
Faulted(i) == obs[i].fault # ""

\* the origin query was made (it returned, or it raised)
IpChecked(i) == Has(i, "query_ip") \/ Has(i, "query_ip_fault")

\* the duplicate query was made (it returned, or it raised)
DupChecked(i) == Has(i, "query_dup") \/ Has(i, "query_dup_fault")

\* a field as submitted, trimmed
Submitted(i, f) == Strip(req[i].body[f].s)

\* records of i's origin written strictly after (now - 1 hour), now read at line 58
OriginRecent(i) ==
    {k \in 1..obs[i].ipLen :
        /\ store[k].SourceIP = loc[i].source_ip
        /\ Minutes(store[k].Timestamp) > obs[i].t58 - OneHour}

\* those of them that carry the submitted email, letter case aside
EmailRecent(i) ==
    {k \in OriginRecent(i) : Lower(store[k].Email) = Lower(Submitted(i, "email"))}

\* records written strictly after (now - 5 minutes), now read at line 90, with
\* the same email and, letter case aside, the same message
DupRecent(i) ==
    {k \in 1..obs[i].dupLen :
        /\ Lower(store[k].Email) = Lower(Submitted(i, "email"))
        /\ Lower(store[k].Message) = Lower(Submitted(i, "message"))
        /\ Minutes(store[k].Timestamp) > obs[i].t90 - FiveMinutes}

NoWrite(i) == ~Has(i, "put") /\ obs[i].put = 0

NoSend(i) == ~Has(i, "send")

Is(r, code, message) == r.statusCode = code /\ r.body.message = message

IsInternalError(r) ==
    Is(r, 500, "Internal server error") /\ r.body.status = "error"

----------------------------------------------------------------------------
\* C1 as stated: an invocation with all three fields non-empty, made when the
\* store holds at least 10 records of its origin written within the trailing
\* hour, answers 429 "Too many submissions. Please try again later." and neither
\* writes to the store nor sends a notification.
C1_AsStated ==
    \A i \in Inv :
        (Returned(i) /\ IpChecked(i)
            /\ Cardinality(OriginRecent(i)) >= MAX_SUBMISSIONS_PER_IP)
        => /\ Is(resp[i], 429, "Too many submissions. Please try again later.")
           /\ NoWrite(i) /\ NoSend(i)

\* C1: such an invocation never writes to the store and never sends a
\* notification; it answers 429 with the origin-limit message when its origin
\* query returns, and 500 "Internal server error" when that query raises.
C1_OriginLimit ==
    \A i \in Inv :
        (IpChecked(i) /\ Cardinality(OriginRecent(i)) >= MAX_SUBMISSIONS_PER_IP)
        => /\ NoWrite(i) /\ NoSend(i)
           /\ pc[i] \in {"limits", "done"}
           /\ Returned(i) =>
                IF Has(i, "query_ip_fault")
                THEN IsInternalError(resp[i])
                ELSE /\ Is(resp[i], 429, "Too many submissions. Please try again later.")
                     /\ resp[i].body.status = "error"

C1_Witness ==
    \E i \in Inv :
        /\ Returned(i) /\ Has(i, "query_ip")
        /\ Cardinality(OriginRecent(i)) = MAX_SUBMISSIONS_PER_IP
        /\ Is(resp[i], 429, "Too many submissions. Please try again later.")
        /\ Len(store) = obs[i].ipLen

----------------------------------------------------------------------------
\* C2 as stated: of two submissions with the same lower-cased trimmed email and,
\* letter case aside, the same message, the second made (line 90) less than five
\* minutes after the first was written, both under the rate limits, the second
\* answers 429 "Duplicate submission detected. Please wait a few minutes." and
\* writes nothing; a submission whose message differs in content from every
\* such record is not answered as a duplicate.
C2_AsStated ==
    \A i \in Inv :
        (Returned(i) /\ DupChecked(i))
        => /\ DupRecent(i) # {} =>
                /\ Is(resp[i], 429,
                      "Duplicate submission detected. Please wait a few minutes.")
                /\ NoWrite(i)
           /\ DupRecent(i) = {} =>
                resp[i].body.message #
                    "Duplicate submission detected. Please wait a few minutes."

\* C2: the same, except that the second submission answers 500 "Internal server
\* error" when its duplicate query raises; it writes nothing in either case.
C2_Duplicate ==
    \A i \in Inv :
        DupChecked(i)
        => /\ DupRecent(i) # {} =>
                /\ NoWrite(i) /\ NoSend(i) /\ Returned(i)
                /\ IF Has(i, "query_dup_fault")
                   THEN IsInternalError(resp[i])
                   ELSE Is(resp[i], 429,
                           "Duplicate submission detected. Please wait a few minutes.")
           /\ DupRecent(i) = {} =>
                resp[i].body.message #
                    "Duplicate submission detected. Please wait a few minutes."

\* one submission is answered as the duplicate of a record whose message differs
\* from its own in letter case only, and another with the same email and another
\* message is accepted while that record is within the five minutes
C2_Witness ==
    \E i, j \in Inv :
        /\ Returned(i) /\ Has(i, "query_dup")
        /\ Is(resp[i], 429, "Duplicate submission detected. Please wait a few minutes.")
        /\ \E k \in DupRecent(i) : store[k].Message # Submitted(i, "message")
        /\ Returned(j) /\ resp[j].statusCode = 200
        /\ \E k \in 1..obs[j].dupLen :
              /\ store[k].Email = loc[j].email
              /\ Lower(store[k].Message) # Lower(loc[j].message)
              /\ Minutes(store[k].Timestamp) > obs[j].t90 - FiveMinutes

----------------------------------------------------------------------------
\* C3 as stated: an invocation made when the store holds at least 5 records of
\* its origin and its email (letter case aside) written within the trailing
\* hour answers 429 "Too many submissions from this email. Please try again
\* later." and writes nothing.
C3_AsStated ==
    \A i \in Inv :
        (Returned(i) /\ IpChecked(i)
            /\ Cardinality(EmailRecent(i)) >= MAX_SUBMISSIONS_PER_EMAIL)
        => /\ Is(resp[i], 429,
                 "Too many submissions from this email. Please try again later.")
           /\ NoWrite(i)

\* C3: such an invocation writes nothing; when its origin query returns it
\* answers 429, with the email-limit message if the origin has fewer than 10
\* records in the hour and with the origin-limit message otherwise; when the
\* query raises it answers 500 "Internal server error".
C3_EmailLimit ==
    \A i \in Inv :
        (IpChecked(i) /\ Cardinality(EmailRecent(i)) >= MAX_SUBMISSIONS_PER_EMAIL)
        => /\ NoWrite(i) /\ NoSend(i)
           /\ pc[i] \in {"limits", "done"}
           /\ Returned(i) =>
                IF Has(i, "query_ip_fault") THEN IsInternalError(resp[i])
                ELSE IF Cardinality(OriginRecent(i)) >= MAX_SUBMISSIONS_PER_IP
                THEN Is(resp[i], 429, "Too many submissions. Please try again later.")
                ELSE Is(resp[i], 429,
                        "Too many submissions from this email. Please try again later.")

\* an email submitted with a capital letter is refused for its 5 stored records
C3_Witness ==
    \E i \in Inv :
        /\ Returned(i) /\ Has(i, "query_ip")
        /\ Cardinality(EmailRecent(i)) = MAX_SUBMISSIONS_PER_EMAIL
        /\ Cardinality(OriginRecent(i)) < MAX_SUBMISSIONS_PER_IP
        /\ Submitted(i, "email") # loc[i].email
        /\ Is(resp[i], 429, "Too many submissions from this email. Please try again later.")

----------------------------------------------------------------------------
\* a field is missing, or empty once trimmed
Missing(v) == v.k = "none" \/ (v.k = "str" /\ Strip(v.s) = <<>>)

\* the body is a mapping (or there is none) in which a required field is missing
AnyMissing(event) ==
    /\ event.body.kind \in {"map", "absent"}
    /\ Missing(event.body.name) \/ Missing(event.body.email) \/ Missing(event.body.message)

\* no field of the body is something other than a string
AllStrings(event) ==
    \A f \in {"name", "email", "message"} : event.body[f].k # "nonstr"

NoQuery(i) == ~IpChecked(i) /\ ~DupChecked(i)

\* C4 as stated: an invocation in whose request name, email or message is
\* missing or empty after trimming answers 400 with status "error" and message
\* "Missing required fields", and makes no store query, no store write and no
\* notification send.
C4_AsStated ==
    \A i \in Inv :
        (Returned(i) /\ AnyMissing(req[i]))
        => /\ Is(resp[i], 400, "Missing required fields")
           /\ resp[i].body.status = "error"
           /\ NoQuery(i) /\ NoWrite(i) /\ NoSend(i)

\* C4: such an invocation makes no store query, no store write and no
\* notification send; it answers 400 "Missing required fields" when every field
\* present is a string, and 500 "Internal server error" when one is not.
C4_MissingFields ==
    \A i \in Inv :
        (Returned(i) /\ AnyMissing(req[i]))
        => /\ NoQuery(i) /\ NoWrite(i) /\ NoSend(i)
           /\ resp[i].body.status = "error"
           /\ IF AllStrings(req[i])
              THEN Is(resp[i], 400, "Missing required fields")
              ELSE IsInternalError(resp[i])

\* a request whose message is empty, and nothing else, has been refused
C4_Witness ==
    \E i \in Inv :
        /\ Returned(i) /\ resp[i].statusCode = 400
        /\ ~Missing(req[i].body.name) /\ ~Missing(req[i].body.email)
        /\ Missing(req[i].body.message)

----------------------------------------------------------------------------
\* the request of i has three non-empty fields, is under both limits and has no
\* duplicate within the five minutes
Acceptable(i) ==
    /\ Has(i, "valid") /\ IpChecked(i)
    /\ Cardinality(OriginRecent(i)) < MAX_SUBMISSIONS_PER_IP
    /\ Cardinality(EmailRecent(i)) < MAX_SUBMISSIONS_PER_EMAIL
    /\ DupRecent(i) = {}

\* exactly one record was written for i: it has a fresh id and carries the
\* trimmed name and message, the trimmed lower-cased email, the fingerprint of
\* email + lower-cased message, and the origin
RecordWritten(i) ==
    /\ Times(i, "put") = 1
    /\ obs[i].put \in 1..Len(store)
    /\ LET r == store[obs[i].put]
       IN  /\ \A k \in 1..Len(store) : k # obs[i].put => store[k].MessageId # r.MessageId
           /\ r.Name = Submitted(i, "name")
           /\ r.Email = Lower(Submitted(i, "email"))
           /\ r.Message = Submitted(i, "message")
           /\ r.ContentHash = Md5Hex(r.Email \o Lower(r.Message))
           /\ r.SourceIP = loc[i].source_ip
           /\ Minutes(r.Timestamp) \in obs[i].t90..now

\* C5 as stated: an acceptable request results in exactly one new record as
\* above and the answer 200 with status "success".
C5_AsStated ==
    \A i \in Inv :
        (Returned(i) /\ Acceptable(i))
        => /\ RecordWritten(i)
           /\ resp[i].statusCode = 200 /\ resp[i].body.status = "success"

\* C5: so it does when neither query nor the write raises; when one of them
\* raises, no record is written and the answer is 500 "Internal server error".
C5_Accepted ==
    \A i \in Inv :
        (Returned(i) /\ Acceptable(i))
        => IF Faulted(i)
           THEN NoWrite(i) /\ NoSend(i) /\ IsInternalError(resp[i])
           ELSE /\ RecordWritten(i)
                /\ resp[i].statusCode = 200 /\ resp[i].body.status = "success"

\* a request with padding and a capital letter in its email has been accepted
C5_Witness ==
    \E i \in Inv :
        /\ Returned(i) /\ Acceptable(i) /\ resp[i].statusCode = 200
        /\ RecordWritten(i)
        /\ req[i].body.email.s # store[obs[i].put].Email
        /\ obs[i].put > 1

----------------------------------------------------------------------------
\* where step stands in the log of i (0 if it does not)
Position(i, step) ==
    IF Has(i, step) THEN CHOOSE k \in 1..Len(obs[i].log) : obs[i].log[k] = step ELSE 0

\* the record i wrote is in the store as i wrote it
StillStored(i) ==
    /\ obs[i].put \in 1..Len(store)
    /\ store[obs[i].put].Email = loc[i].email
    /\ store[obs[i].put].Message = loc[i].message
    /\ store[obs[i].put].Name = loc[i].name
    /\ store[obs[i].put].SourceIP = loc[i].source_ip

\* C6: once an invocation has written its record the record stays stored; the
\* send is attempted at most once; the answer is 200 with status "success",
\* never 500, and its message is "Message received!" when the send raised and
\* "Message sent!" when it succeeded; only successful sends reach the outbox.
C6_NotifyFault ==
    /\ \A i \in Inv :
          Has(i, "put")
          => /\ StillStored(i)
             /\ Times(i, "send") <= 1 /\ Times(i, "email_error") <= 1
             /\ resp[i].statusCode # 500
             /\ Returned(i) =>
                  /\ Has(i, "send")
                  /\ resp[i].statusCode = 200 /\ resp[i].body.status = "success"
                  /\ resp[i].body.message =
                        IF Has(i, "email_error") THEN "Message received!"
                                                 ELSE "Message sent!"
    /\ Len(outbox) =
          Cardinality({i \in Inv : Has(i, "send") /\ ~Has(i, "email_error")})

\* a send has raised after the write: the record is stored and the answer is 200
C6_Witness ==
    \E i \in Inv :
        /\ Returned(i) /\ Has(i, "put") /\ Has(i, "email_error")
        /\ StillStored(i)
        /\ Is(resp[i], 200, "Message received!")
        /\ outbox = <<>>

----------------------------------------------------------------------------
\* the steps invocation i can take
Step(i) ==
    \/ \E ok \in BOOLEAN : QueryIp(i, ok)
    \/ CheckLimits(i)
    \/ \E ok \in BOOLEAN : QueryDup(i, ok)
    \/ \E ok \in BOOLEAN : Put(i, ok)
    \/ \E ok \in BOOLEAN : Send(i, ok)

FaultSteps == {"parse_fault", "query_ip_fault", "query_dup_fault", "put_fault"}

\* the body of the request does not parse: malformed text, not a mapping, or a
\* field that is not a string
Unparsable(event) ==
    \/ event.body.kind \in {"malformed", "notmap"}
    \/ event.body.kind = "map" /\ ~AllStrings(event)

\* C7: an invocation that has started can always take its next step until it
\* returns, and it returns a response; a fault raised while parsing, by either
\* query or by the write ends the invocation with 500, status "error" and the
\* message "Internal server error", which is not the text of the fault; a body
\* that does not parse is answered 500, not 400.
C7_FaultBoundary ==
    \A i \in Inv :
        /\ pc[i] \in {"idle", "query_ip", "limits", "query_dup", "put", "send", "done"}
        /\ pc[i] \notin {"idle", "done"} => ENABLED Step(i)
        /\ Returned(i) => resp[i].statusCode \in {200, 400, 429, 500}
        /\ (\E s \in FaultSteps : Has(i, s)) <=> Faulted(i)
        /\ Faulted(i) =>
              /\ Returned(i) /\ IsInternalError(resp[i])
              /\ resp[i].body.message # obs[i].fault
        /\ (Returned(i) /\ Unparsable(req[i])) =>
              /\ Has(i, "parse_fault") /\ resp[i].statusCode = 500

\* a malformed body and a fault of the write have both been answered 500
C7_Witness ==
    \E i, j \in Inv :
        /\ Returned(i) /\ req[i].body.kind = "malformed" /\ IsInternalError(resp[i])
        /\ Returned(j) /\ Has(j, "put_fault") /\ IsInternalError(resp[j])

----------------------------------------------------------------------------
\* records of origin ip written within the hour that ends now
OriginInHour(ip) ==
    {k \in 1..Len(store) :
        store[k].SourceIP = ip /\ Minutes(store[k].Timestamp) > now - OneHour}

\* C8: nothing ties the write to the two reads: an invocation that has passed
\* its checks can always write, whatever other invocations have written since
\* its queries, and its own queries saw the origin under the limit and no
\* duplicate.
C8_NoAtomicity ==
    \A i \in Inv :
        pc[i] = "put"
        => /\ ENABLED Put(i, TRUE)
           /\ Cardinality(OriginRecent(i)) < MAX_SUBMISSIONS_PER_IP
           /\ DupRecent(i) = {}

\* two identical submissions from one origin both made their two queries before
\* either wrote; both were answered 200, and the store holds more than 10
\* records of the origin within one hour, two of them with the same fingerprint
C8_Witness ==
    \E i, j \in Inv :
        /\ i # j /\ Returned(i) /\ Returned(j)
        /\ resp[i].statusCode = 200 /\ resp[j].statusCode = 200
        /\ loc[i].source_ip = loc[j].source_ip
        /\ obs[i].dupLen < obs[j].put /\ obs[j].dupLen < obs[i].put
        /\ Cardinality(OriginInHour(loc[i].source_ip)) > MAX_SUBMISSIONS_PER_IP
        /\ store[obs[i].put].ContentHash = store[obs[j].put].ContentHash
        /\ store[obs[i].put].Timestamp = store[obs[j].put].Timestamp

----------------------------------------------------------------------------
GatesPassed == <<"valid", "query_ip", "ip_ok", "email_ok", "query_dup", "dup_ok">>

\* C9: an invocation writes at most once, and only after validation, the origin
\* limit, the email limit and the duplicate check have passed, in that order;
\* it sends at most once, and only after its write; a 400 or 429 answer comes
\* with no write and no send; once it has written, its answer is 200, and it
\* answers 200 only if it has written.
C9_Gates ==
    \A i \in Inv :
        /\ Times(i, "put") <= 1 /\ Times(i, "send") <= 1
        /\ Has(i, "put") <=> obs[i].put # 0
        /\ Has(i, "put") =>
              /\ SubSeq(obs[i].log, 1, Position(i, "put") - 1) = GatesPassed
              /\ ~AnyMissing(req[i])
              /\ Cardinality(OriginRecent(i)) < MAX_SUBMISSIONS_PER_IP
              /\ Cardinality(EmailRecent(i)) < MAX_SUBMISSIONS_PER_EMAIL
              /\ DupRecent(i) = {}
        /\ Has(i, "send") => Has(i, "put") /\ Position(i, "put") < Position(i, "send")
        /\ (Returned(i) /\ resp[i].statusCode \in {400, 429}) => NoWrite(i) /\ NoSend(i)
        /\ Returned(i) => (resp[i].statusCode = 200 <=> Has(i, "put"))
        /\ Len(store) = uuids

\* an invocation has passed every gate, written, sent and answered 200 while
\* another was refused at a gate without writing
C9_Witness ==
    \E i, j \in Inv :
        /\ Returned(i) /\ resp[i].statusCode = 200
        /\ obs[i].log = GatesPassed \o <<"put", "send">>
        /\ Returned(j) /\ resp[j].statusCode = 429 /\ NoWrite(j)

----------------------------------------------------------------------------
(* get_source_ip on its own: the events it is given, and its application *)

SourceIps == {None, Str(<<>>), Str(<<"1">>)}

IdentityIps == {None, Str(<<>>), Str(<<"2">>)}

ForwardedLower ==
    {None, Str(<<>>), Str(<<"3">>), Str(<<" ", "3", " ", ",", "4">>),
     Str(<<",", "3">>), Str(<<" ">>)}

ForwardedUpper == {None, Str(<<>>), Str(<<"5", " ">>)}

IpEvents ==
    {[requestContext |-> rc, http |-> h, httpIp |-> hi, identity |-> d,
      identityIp |-> di, headers |-> hd, xff |-> x, XFF |-> y, body |-> None] :
        rc \in BOOLEAN, h \in BOOLEAN, hi \in SourceIps,
        d \in BOOLEAN, di \in IdentityIps,
        hd \in BOOLEAN, x \in ForwardedLower, y \in ForwardedUpper}

InitIp ==
    /\ store = <<>>
    /\ uuids = 0
    /\ now = T0
    /\ outbox = <<>>
    /\ pc = [i \in Inv |-> "idle"]
    /\ \E event \in IpEvents : req = [i \in Inv |-> event]
    /\ loc = [i \in Inv |-> BlankLoc]
    /\ resp = [i \in Inv |-> NoResponse]
    /\ obs = [i \in Inv |-> BlankObs]

\* line 48: source_ip = get_source_ip(event)
DeriveIp ==
    /\ \E i \in Inv : pc[i] = "idle"
    /\ pc' = [i \in Inv |-> "ip"]
    /\ loc' = [i \in Inv |-> [loc[i] EXCEPT !.source_ip = get_source_ip(req[i])]]
    /\ UNCHANGED <<store, now, uuids, outbox, req, resp, obs>>

NextIp == DeriveIp

SpecIp == InitIp /\ [][NextIp]_vars

\* the text of a key that may be absent: nothing when it is
Text(v) == IF v.k = "str" THEN v.s ELSE <<>>

\* s between its first and its last character that is not a space
Trimmed(s) ==
    LET solid == {k \in 1..Len(s) : s[k] # " "}
    IN  IF solid = {} THEN <<>>
        ELSE SubSeq(s, CHOOSE a \in solid : \A b \in solid : a <= b,
                       CHOOSE a \in solid : \A b \in solid : a >= b)

\* s up to its first comma
BeforeComma(s) ==
    LET commas == {k \in 1..Len(s) : s[k] = ","}
    IN  IF commas = {} THEN s
        ELSE SubSeq(s, 1, (CHOOSE a \in commas : \A b \in commas : a <= b) - 1)

\* the forwarded-for header, under either spelling of its name
ForwardedHeader(event) ==
    IF ~event.headers THEN <<>>
    ELSE IF Text(event.xff) # <<>> THEN Text(event.xff) ELSE Text(event.XFF)

\* the three places an origin is looked for, in their order of priority
Candidates(event) ==
    <<IF event.requestContext /\ event.http THEN Text(event.httpIp) ELSE <<>>,
      IF event.requestContext /\ event.identity THEN Text(event.identityIp) ELSE <<>>,
      Trimmed(BeforeComma(ForwardedHeader(event)))>>

\* C10: get_source_ip returns the first non-empty of requestContext.http.sourceIp,
\* requestContext.identity.sourceIp and the trimmed first comma-separated token
\* of the forwarded-for header, and the literal "unknown" when none is
\* non-empty, so that every such request has the same origin.
C10_SourceIp ==
    \A i \in Inv :
        pc[i] = "ip"
        => LET c == Candidates(req[i])
               found == {k \in 1..3 : c[k] # <<>>}
           IN  IF found = {} THEN loc[i].source_ip = UNKNOWN
               ELSE loc[i].source_ip = c[CHOOSE a \in found : \A b \in found : a <= b]

\* the origin was taken from the first token of a padded forwarded-for header
C10_Witness ==
    \E i \in Inv :
        /\ pc[i] = "ip"
        /\ req[i].requestContext /\ req[i].http /\ req[i].httpIp = None
        /\ req[i].identity /\ req[i].identityIp = Str(<<>>)
        /\ req[i].headers /\ req[i].xff = Str(<<" ", "3", " ", ",", "4">>)
        /\ loc[i].source_ip = <<"3">>

----------------------------------------------------------------------------
(* Further properties of lambda_handler *)

\* the history of an invocation only grows
LogGrows(i) ==
    /\ Len(obs'[i].log) >= Len(obs[i].log)
    /\ SubSeq(obs'[i].log, 1, Len(obs[i].log)) = obs[i].log

\* C11: the store is append-only: no step of any invocation, whatever its
\* outcome, removes a record or changes a field of a record the store already
\* holds; a step adds at most one record, and the step that adds one is the
\* single write of an invocation that had not written before.
C11_AppendOnly ==
    [][ /\ Len(store') >= Len(store)
        /\ SubSeq(store', 1, Len(store)) = store
        /\ Len(store') <= Len(store) + 1
        /\ \A i \in Inv : LogGrows(i)
        /\ store' # store =>
              \E i \in Inv :
                  /\ pc[i] = "put" /\ ~Has(i, "put")
                  /\ obs'[i].log = Append(obs[i].log, "put")
                  /\ \A j \in Inv \ {i} : obs'[j] = obs[j] ]_vars

\* one invocation has written and another has failed in its write: the store
\* is what it was at the start, followed by the one record written
C11_Witness ==
    \E i, j \in Inv :
        /\ Returned(i) /\ resp[i].statusCode = 200 /\ Times(i, "put") = 1
        /\ Returned(j) /\ Has(j, "put_fault") /\ NoWrite(j)
        /\ \E c \in PrefillChoices :
              LET old == Prefill(c[1], c[2], c[3], c[4])
              IN  /\ Len(store) = Len(old) + 1
                  /\ SubSeq(store, 1, Len(old)) = old
                  /\ obs[i].put = Len(store)
                  /\ store[Len(store)].Email = loc[i].email

----------------------------------------------------------------------------
HeaderNames(r) == {h[1] : h \in r.headers}

Messages ==
    {"Missing required fields",
     "Too many submissions. Please try again later.",
     "Too many submissions from this email. Please try again later.",
     "Duplicate submission detected. Please wait a few minutes.",
     "Internal server error", "Message received!", "Message sent!"}

\* C12: every response returned, whatever the outcome, has a statusCode among
\* 200, 400, 429 and 500, the headers Content-Type: application/json and
\* Access-Control-Allow-Origin: *, and a body with a status, "success" or
\* "error", and a message; the status is "success" exactly when the statusCode
\* is 200, and the headers Access-Control-Allow-Methods and
\* Access-Control-Allow-Headers are there exactly when the statusCode is 200.
C12_ResponseShape ==
    \A i \in Inv :
        Returned(i) =>
            LET r == resp[i]
            IN  /\ r.statusCode \in {200, 400, 429, 500}
                /\ BaseHeaders \subseteq r.headers
                /\ Cardinality(HeaderNames(r)) = Cardinality(r.headers)
                /\ r.body.status \in {"success", "error"}
                /\ r.body.message \in Messages
                /\ r.body.status = "success" <=> r.statusCode = 200
                /\ "Access-Control-Allow-Methods" \in HeaderNames(r) <=> r.statusCode = 200
                /\ "Access-Control-Allow-Headers" \in HeaderNames(r) <=> r.statusCode = 200

\* a 200 and a 400 have been returned, the first with the two further headers,
\* the second with none but the two common ones
C12_Witness ==
    \E i, j \in Inv :
        /\ Returned(i) /\ resp[i].statusCode = 200 /\ resp[i].body.status = "success"
        /\ HeaderNames(resp[i]) = {"Content-Type", "Access-Control-Allow-Origin",
                                   "Access-Control-Allow-Methods",
                                   "Access-Control-Allow-Headers"}
        /\ Returned(j) /\ resp[j].statusCode = 400 /\ resp[j].body.status = "error"
        /\ HeaderNames(resp[j]) = {"Content-Type", "Access-Control-Allow-Origin"}

----------------------------------------------------------------------------
(* lambda_handler called serially: an invocation starts only when every      *)
(* earlier one has returned.  The store starts with records that serial     *)
(* invocations leave behind: of one origin, at most 10 within an hour and   *)
(* at most 5 of them with one email, no two with the same fingerprint.      *)

\* a message of k letters, a different one for every k
Nth(k) == [j \in 1..k |-> "o"]

\* the message of the r-th record written within the five minutes: "M", then
\* "X", then messages no form of the model carries
RecentMessage(r) == IF r = 1 THEN <<"M">> ELSE <<"X">> \o Nth(r - 2)

PrefillSerial(nA, nB, nOld, nRecent) ==
    [k \in 1..(nOld + nA + nB + nRecent) |->
        IF k <= nOld THEN Item(k, T0 - OneHour, <<"N">>, <<"a">>, Nth(k), Ip1)
        ELSE IF k <= nOld + nA
             THEN Item(k, T0 - OneHour + 1, <<"N">>, <<"a">>, Nth(k), Ip1)
        ELSE IF k <= nOld + nA + nB
             THEN Item(k, T0 - OneHour + 1, <<"N">>, <<"b">>, Nth(k), Ip1)
        ELSE Item(k, T0 - FiveMinutes + 1, <<"N">>, <<"a">>,
                  RecentMessage(k - nOld - nA - nB), UNKNOWN)]

SerialChoices ==
    {c \in (MAX_SUBMISSIONS_PER_EMAIL - 2 .. MAX_SUBMISSIONS_PER_EMAIL)
            \X (MAX_SUBMISSIONS_PER_EMAIL - 1 .. MAX_SUBMISSIONS_PER_EMAIL)
            \X (0..MaxOld) \X (0..MaxRecent) :
        /\ c[3] + c[1] <= MAX_SUBMISSIONS_PER_EMAIL
        /\ c[3] + c[1] + c[2] <= MAX_SUBMISSIONS_PER_IP}

InitSerial ==
    /\ \E c \in SerialChoices :
          /\ store = PrefillSerial(c[1], c[2], c[3], c[4])
          /\ uuids = c[1] + c[2] + c[3] + c[4]
    /\ now = T0
    /\ outbox = <<>>
    /\ pc = [i \in Inv |-> "idle"]
    /\ req = [i \in Inv |-> None]
    /\ loc = [i \in Inv |-> BlankLoc]
    /\ resp = [i \in Inv |-> NoResponse]
    /\ obs = [i \in Inv |-> BlankObs]

\* line 37, entered when no other invocation is running
StartSerial(i, event) ==
    /\ \A j \in Inv \ {i} : pc[j] \in {"idle", "done"}
    /\ Start(i, event)

NextSerial ==
    \/ \E i \in Inv, event \in Events : StartSerial(i, event)
    \/ \E i \in Inv, ok \in BOOLEAN : QueryIp(i, ok)
    \/ \E i \in Inv : CheckLimits(i)
    \/ \E i \in Inv, ok \in BOOLEAN : QueryDup(i, ok)
    \/ \E i \in Inv, ok \in BOOLEAN : Put(i, ok)
    \/ \E i \in Inv, ok \in BOOLEAN : Send(i, ok)
    \/ Tick

SpecSerial == InitSerial /\ [][NextSerial]_vars

----------------------------------------------------------------------------
\* records that carry the submitted email, of whatever origin, written strictly
\* after (now - 1 hour), now read at line 58
EmailAnywhere(i) ==
    {k \in 1..obs[i].ipLen :
        /\ Lower(store[k].Email) = Lower(Submitted(i, "email"))
        /\ Minutes(store[k].Timestamp) > obs[i].t58 - OneHour}

\* records with email e written less than one hour before record k, k included
EmailWithinHourOf(k, e) ==
    {n \in 1..Len(store) :
        /\ store[n].Email = e
        /\ Minutes(store[n].Timestamp) > Minutes(store[k].Timestamp) - OneHour
        /\ Minutes(store[n].Timestamp) <= Minutes(store[k].Timestamp)}

----------------------------------------------------------------------------
\* records of i's origin written at or before (now - 1 hour), now read at line 58
OriginAged(i) ==
    {k \in 1..obs[i].ipLen :
        /\ store[k].SourceIP = loc[i].source_ip
        /\ Minutes(store[k].Timestamp) <= obs[i].t58 - OneHour}

\* records with i's fingerprint written at or before (now - 5 minutes), now read
\* at line 90
DupAged(i) ==
    {k \in 1..obs[i].dupLen :
        /\ store[k].ContentHash = loc[i].content_hash
        /\ Minutes(store[k].Timestamp) <= obs[i].t90 - FiveMinutes}

\* C14: the windows are trailing and strict.  Only records written strictly
\* after (now - 1 hour) count toward the origin limit and the email limit, and
\* only records written strictly after (now - 5 minutes) count as duplicates:
\* an invocation is refused at a gate only on the strength of such records,
\* and with fewer than 10 of them for its origin it passes the origin gate,
\* with none of its fingerprint the duplicate gate, however many records were
\* written at or before the start of the window.
C14_Windows ==
    \A i \in Inv :
        /\ Has(i, "ip_limit") => Cardinality(OriginRecent(i)) >= MAX_SUBMISSIONS_PER_IP
        /\ Has(i, "email_limit") => Cardinality(EmailRecent(i)) >= MAX_SUBMISSIONS_PER_EMAIL
        /\ Has(i, "duplicate") => DupRecent(i) # {}
        /\ (Has(i, "query_ip") /\ pc[i] # "limits"
                /\ Cardinality(OriginRecent(i)) < MAX_SUBMISSIONS_PER_IP)
           => Has(i, "ip_ok")
        /\ (Has(i, "query_dup") /\ DupRecent(i) = {}) => Has(i, "dup_ok")
        /\ (Has(i, "dup_ok") /\ Returned(i) /\ ~Has(i, "put_fault"))
           => resp[i].statusCode = 200

\* an origin refused for the origin limit is accepted a minute later, when its
\* 10 records are exactly one hour old; the submission accepted has the
\* fingerprint of a record written exactly five minutes before
C14_Witness ==
    \E i, j \in Inv :
        /\ Returned(i) /\ Is(resp[i], 429, "Too many submissions. Please try again later.")
        /\ Returned(j) /\ resp[j].statusCode = 200
        /\ loc[i].source_ip = loc[j].source_ip
        /\ obs[i].t58 < obs[j].t58
        /\ Cardinality(OriginRecent(i) \cap OriginAged(j)) >= MAX_SUBMISSIONS_PER_IP
        /\ \A k \in OriginRecent(i) :
              Minutes(store[k].Timestamp) = obs[j].t58 - OneHour
        /\ \E k \in DupAged(j) : Minutes(store[k].Timestamp) = obs[j].t90 - FiveMinutes

----------------------------------------------------------------------------
OverOrigin(i) == Cardinality(OriginRecent(i)) >= MAX_SUBMISSIONS_PER_IP

OverEmail(i) == Cardinality(EmailRecent(i)) >= MAX_SUBMISSIONS_PER_EMAIL

\* records the store held when the origin query was made that have the same
\* email and, letter case aside, the same message, and were written strictly
\* after (now - 5 minutes), now read at line 58
DupAtOnce(i) ==
    {k \in 1..obs[i].ipLen :
        /\ Lower(store[k].Email) = Lower(Submitted(i, "email"))
        /\ Lower(store[k].Message) = Lower(Submitted(i, "message"))
        /\ Minutes(store[k].Timestamp) > obs[i].t58 - FiveMinutes}

OriginMessage(r) == Is(r, 429, "Too many submissions. Please try again later.")

EmailMessage(r) ==
    Is(r, 429, "Too many submissions from this email. Please try again later.")

DuplicateMessage(r) ==
    Is(r, 429, "Duplicate submission detected. Please wait a few minutes.")

\* C15 as stated: a request with all three fields that is over the origin limit
\* and also over the email limit or a duplicate is answered with the
\* origin-limit message; one over the email limit and a duplicate, not over
\* the origin limit, with the email-limit message; in both cases the duplicate
\* query is not issued.
C15_AsStated ==
    \A i \in Inv :
        (Returned(i) /\ IpChecked(i)) =>
            /\ (OverOrigin(i) /\ (OverEmail(i) \/ DupAtOnce(i) # {}))
               => OriginMessage(resp[i]) /\ ~DupChecked(i)
            /\ (~OverOrigin(i) /\ OverEmail(i) /\ DupAtOnce(i) # {})
               => EmailMessage(resp[i]) /\ ~DupChecked(i)

\* C15: the gates answer in the order validation, origin limit, email limit,
\* duplicate check.  A request with a missing field makes no query.  A request
\* over the origin limit or over the email limit never has its duplicate
\* query issued and never writes; when its origin query returns it is answered
\* with the origin-limit message if it is over the origin limit, whatever else
\* holds of it, and with the email-limit message if it is over the email limit
\* only; when its origin query raises it is answered 500.  The duplicate
\* message is given only to a request over neither limit.
C15_Precedence ==
    \A i \in Inv :
        /\ (pc[i] # "idle" /\ AnyMissing(req[i])) => NoQuery(i) /\ NoWrite(i)
        /\ (IpChecked(i) /\ (OverOrigin(i) \/ OverEmail(i)))
           => /\ ~DupChecked(i) /\ NoWrite(i) /\ NoSend(i)
              /\ pc[i] \in {"limits", "done"}
        /\ (Returned(i) /\ Has(i, "query_ip"))
           => /\ OverOrigin(i) => OriginMessage(resp[i])
              /\ (~OverOrigin(i) /\ OverEmail(i)) => EmailMessage(resp[i])
        /\ (Returned(i) /\ Has(i, "query_ip_fault")) => IsInternalError(resp[i])
        /\ (Returned(i) /\ DuplicateMessage(resp[i]))
           => ~OverOrigin(i) /\ ~OverEmail(i) /\ DupRecent(i) # {}

\* a request over the origin limit, over the email limit and a duplicate, all
\* at once, was answered with the origin-limit message without a duplicate query
C15_Witness ==
    \E i \in Inv :
        /\ Returned(i) /\ Has(i, "query_ip")
        /\ OverOrigin(i) /\ OverEmail(i) /\ DupAtOnce(i) # {}
        /\ OriginMessage(resp[i])
        /\ ~DupChecked(i)

\* a request under the origin limit, over the email limit and a duplicate was
\* answered with the email-limit message without a duplicate query
EmailBeforeDuplicate ==
    \E i \in Inv :
        /\ Returned(i) /\ Has(i, "query_ip")
        /\ ~OverOrigin(i) /\ OverEmail(i) /\ DupAtOnce(i) # {}
        /\ EmailMessage(resp[i])
        /\ ~DupChecked(i)

----------------------------------------------------------------------------
Stamp(k) == Minutes(store[k].Timestamp)

\* records of the origin of record k written less than one hour before it, k
\* included: the records of that origin in the one-hour span that ends with k
\* and is open at its start
OriginWithinHourOf(k) ==
    {n \in 1..Len(store) :
        /\ store[n].SourceIP = store[k].SourceIP
        /\ Stamp(n) > Stamp(k) - OneHour /\ Stamp(n) <= Stamp(k)}

\* the same span with its start included: records up to exactly one hour older
OriginWithinClosedHourOf(k) ==
    {n \in 1..Len(store) :
        /\ store[n].SourceIP = store[k].SourceIP
        /\ Stamp(n) >= Stamp(k) - OneHour /\ Stamp(n) <= Stamp(k)}

SharingEmail(records, e) == {n \in records : store[n].Email = e}

Emails == {store[n].Email : n \in 1..Len(store)}

\* C16 as stated, a span taken with both its ends: called serially, the store
\* never holds more than 10 records of one origin, nor more than 5 of them with
\* one email, whose timestamps lie within one hour.
C16_AsStated ==
    \A k \in 1..Len(store) :
        /\ Cardinality(OriginWithinClosedHourOf(k)) <= MAX_SUBMISSIONS_PER_IP
        /\ \A e \in Emails :
              Cardinality(SharingEmail(OriginWithinClosedHourOf(k), e))
                  <= MAX_SUBMISSIONS_PER_EMAIL

\* C16: called serially, with a clock that does not go backwards, the store
\* never holds more than 10 records of one origin, nor more than 5 of them with
\* one email, whose timestamps lie less than one hour apart.
C16_SerialLimits ==
    \A k \in 1..Len(store) :
        /\ Cardinality(OriginWithinHourOf(k)) <= MAX_SUBMISSIONS_PER_IP
        /\ \A e \in Emails :
              Cardinality(SharingEmail(OriginWithinHourOf(k), e))
                  <= MAX_SUBMISSIONS_PER_EMAIL

\* an accepted request brought its origin to 10 records within the hour, 5 of
\* them with its email, and the next request of that origin was refused
C16_Witness ==
    \E i, j \in Inv :
        /\ Returned(i) /\ resp[i].statusCode = 200
        /\ Cardinality(OriginWithinHourOf(obs[i].put)) = MAX_SUBMISSIONS_PER_IP
        /\ Cardinality(SharingEmail(OriginWithinHourOf(obs[i].put), loc[i].email))
              = MAX_SUBMISSIONS_PER_EMAIL
        /\ Returned(j) /\ OriginMessage(resp[j])
        /\ loc[j].source_ip = loc[i].source_ip
        /\ obs[j].ipLen >= obs[i].put

----------------------------------------------------------------------------
\* C17: called serially, with a clock that does not go backwards, the store
\* never holds two records with the same ContentHash whose timestamps are less
\* than 5 minutes apart, whatever origins they came from.
C17_SerialDuplicates ==
    \A k, n \in 1..Len(store) :
        (k # n /\ store[k].ContentHash = store[n].ContentHash /\ Stamp(k) <= Stamp(n))
        => Stamp(n) - Stamp(k) >= FiveMinutes

\* a submission was refused as the duplicate of a record of another origin,
\* and accepted a minute later: the two records with its fingerprint are
\* exactly five minutes apart
C17_Witness ==
    \E i, j \in Inv :
        /\ Returned(i) /\ DuplicateMessage(resp[i])
        /\ Returned(j) /\ resp[j].statusCode = 200
        /\ loc[i].content_hash = loc[j].content_hash
        /\ \E k \in DupRecent(i) :
              /\ store[k].SourceIP # loc[i].source_ip
              /\ store[k].ContentHash = store[obs[j].put].ContentHash
              /\ Stamp(obs[j].put) - Stamp(k) = FiveMinutes

====
